---- MODULE Spec2Model ----
(***************************************************************************)
(* A model of src/curator.py, the StudentPulse curation pipeline:          *)
(*   fetch_articles -> classify_articles -> deduplicate_articles ->        *)
(*   calculate_score (main loop) -> select_top_per_category -> render.     *)
(*                                                                         *)
(* Units.  Time is counted in whole hours; clock is datetime.utcnow().     *)
(* Weights and confidences are in hundredths (1.0 is 100).  A score is the *)
(* exact product  weight * recency * confidence * must-know factor  where  *)
(* recency is in 1/1680ths (so that max(0.1, 1 - age/168) is an integer)   *)
(* and the must-know factor is in halves (1.5 is 3, 1 is 2): every score   *)
(* has the same denominator, 100 * 1680 * 100 * 2, and scores compare as   *)
(* their numerators.  The code computes the same product in floating      *)
(* point; the model compares the exact values.                             *)
(*                                                                         *)
(* Text.  The code only ever asks whether a keyword occurs in a lowered    *)
(* text, so a text is modelled by the set of keywords that occur in it.    *)
(***************************************************************************)
EXTENDS Integers, Sequences, FiniteSets, TLC

VARIABLES
    pc,           \* stage of the run (position in __main__) or its outcome
    clock,        \* datetime.utcnow(), in hours
    src,          \* fetch_articles: index of the source being fetched
    feed,         \* fetch_articles: feed.entries of the current source
    ent,          \* fetch_articles: index of the entry being processed (0: no feed open)
    fetch_now,    \* fetch_articles: its local `now`
    seen,         \* number of feed entries handed out so far (bounds the run)
    articles,     \* the article list handed from stage to stage
    ci,           \* classify_articles: index of the article being classified
    filtered_articles,     \* classify_articles: filtered_articles
    categorized,  \* the result of select_top_per_category
    lost,         \* history: well-formed entries never processed, as <<source, index>>
    oracle,       \* history: article id -> what the classifier answered for it
    reads,        \* history: ids of the articles whose score deduplicate_articles read
    marks,        \* history: <<removed index, other index>> for each to_remove.add
    dedup_in,     \* history: the list deduplicate_articles was given
    cosine_scores \* history: the similarity matrix the embedder answered with

vars == <<pc, clock, src, feed, ent, fetch_now, seen, articles, ci, filtered_articles,
          categorized, lost, oracle, reads, marks, dedup_in, cosine_scores>>

-----------------------------------------------------------------------------
(* Bounds of the model *)

\* feed entries handed out in one run, over all sources
MaxEntries == 3
\* hours the clock may advance between two readings of utcnow()
MaxDelay == 1
\* articles handed to deduplicate_articles when it is checked on its own
MaxDedup == 4
\* articles handed to the scoring loop when it is checked on its own
MaxRich == 2
\* articles handed to select_top_per_category when it is checked on its own,
\* and the period of their pattern
MaxSelect == 11
MaxPattern == 2

-----------------------------------------------------------------------------
(* CONFIG *)

\* two of the SOURCES: one whose name holds a rule keyword, one whose name holds none
SOURCES == <<
    [name |-> "National Scholarship Portal", weight |-> 100, keywords |-> {"scholarship"}],
    [name |-> "Swiggy Careers", weight |-> 95, keywords |-> {}] >>

CATEGORIES == <<"Scholarships", "Internships & Jobs">>

TOP_N == 10

\* DEDUP_THRESHOLD = 0.85, in hundredths
DEDUP_THRESHOLD == 85

\* timedelta(days=7) of the cutoff and the 7*24 of the recency decay, in hours
WindowHours == 7 * 24

Range(s) == {s[k] : k \in DOMAIN s}

-----------------------------------------------------------------------------
(* Keyword predicates: `kw in text.lower()` *)

AnyIn(keywords, text) == \E kw \in keywords : kw \in text

is_student_related(text) ==
    LET india_keywords == {"india", "indian", "delhi", "mumbai", "bengaluru", "hyderabad",
                           "chennai", "kolkata", "pune", "apply in india",
                           "for indian students"}
        student_keywords == {"scholarship", "intern", "internship", "fresher job", "apply",
                             "last date", "notification", "admit card", "exam", "result",
                             "career", "placement", "recruitment", "govt job", "sarkari",
                             "stipend", "grant", "award"}
        reject_keywords == {"ireland", "australia", "uk", "usa", "canada", "europe",
                            "global", "international student", "the pie news",
                            "tertiary education commission",
                            "south east technological university"}
        has_india == AnyIn(india_keywords, text)
        has_student == AnyIn(student_keywords, text)
        has_reject == AnyIn(reject_keywords, text)
    IN has_india /\ has_student /\ ~has_reject

is_trending(text) == AnyIn({"viral", "trending", "breaking", "record", "skyrockets"}, text)

is_must_know(text) ==
    AnyIn({"last date", "apply now", "urgent", "deadline", "closing soon"}, text)

-----------------------------------------------------------------------------
(* Feed entries.  published is "absent" (no attribute), "unparseable" (the  *)
(* date parser raises) or "date", and hour is then the parsed hour; title   *)
(* is "absent", "empty" or "ok"; link says whether entry.link exists;       *)
(* summary is the length of the stripped summary (0: none); text is the     *)
(* keyword set of title + summary.                                          *)

Texts == { {"india", "scholarship"},            \* relevant, rule tier
           {"india", "exam"},                   \* relevant, no rule keyword
           {"india", "exam", "deadline"},       \* the same, must-know
           {"india", "scholarship", "uk"} }     \* rejected by the gate

GoodEntry(text, published, hour) ==
    [published |-> published, hour |-> hour, title |-> "ok", link |-> TRUE,
     summary |-> 120, text |-> text]

\* well-formed entries of every text, and one entry for each way the loop body
\* can leave the straight path: no link, no title and an unparseable date, an
\* unparseable date, no published and no summary, an empty title, a short
\* summary, a date before the cutoff, a date after now
Entries ==
    {GoodEntry(t, "date", -24) : t \in Texts}
    \cup { [GoodEntry({"india", "exam"}, "date", -24) EXCEPT !.link = FALSE],
           [GoodEntry({"india", "exam"}, "unparseable", 0) EXCEPT !.title = "absent"],
           [GoodEntry({"india", "exam"}, "unparseable", 0) EXCEPT !.summary = 400],
           [GoodEntry({"india", "exam"}, "absent", 0) EXCEPT !.summary = 0],
           [GoodEntry({"india", "exam"}, "date", -24) EXCEPT !.title = "empty"],
           [GoodEntry({"india", "exam"}, "date", -24) EXCEPT !.summary = 10],
           GoodEntry({"india", "scholarship"}, "date", -192),
           GoodEntry({"india", "exam"}, "date", 24) }

\* the feeds feedparser.parse can hand out when `left` entries remain in the bound
Feeds(left) ==
    UNION { [1..n -> Entries] : n \in 0..left }

-----------------------------------------------------------------------------
(* fetch_articles, one feed entry at a time *)

\* lines 169-178: the publish date; "AttributeError" when the handler of a
\* date-parse failure formats entry.title and the entry has none
PubDate(entry, now) ==
    IF entry.published = "date" THEN [raised |-> FALSE, pub_date |-> entry.hour]
    ELSE IF entry.published = "absent" THEN [raised |-> FALSE, pub_date |-> now]
    ELSE IF entry.title = "absent" THEN [raised |-> TRUE, pub_date |-> now]
    ELSE [raised |-> FALSE, pub_date |-> now]

\* lines 194-198: the length of the summary after truncation and placeholder
SummaryLen(entry) ==
    LET capped == IF entry.summary > 300 THEN 297 + 3 ELSE entry.summary
    IN IF capped = 0 THEN 37 ELSE capped

\* lines 169-224 for one entry: "raise" (an exception leaves the entries loop),
\* "skip" (continue) or "append"
EntryOutcome(entry, now, cutoff) ==
    LET d == PubDate(entry, now)
    IN IF d.raised THEN "raise"
       ELSE IF d.pub_date < cutoff THEN "skip"
       ELSE IF entry.title # "ok" THEN "skip"
       ELSE IF SummaryLen(entry) < 20 THEN "skip"
       ELSE IF ~entry.link THEN "raise"
       ELSE "append"

\* lines 215-224: the article dict (title, summary, url and image_url are strings
\* no later decision reads; text_for_ai is the keyword set of title + summary).
\* id is the identity of the dict object: its position in the list it is appended to.
NewArticle(id, entry, source, now) ==
    [id |-> id,
     source |-> source.name,
     source_keywords |-> source.keywords,
     source_weight |-> source.weight,
     published_at |-> PubDate(entry, now).pub_date,
     text_for_ai |-> entry.text]

\* an entry that fetch_articles appends when it is the only entry of its feed
WellFormed(entry, now) == EntryOutcome(entry, now, now - WindowHours) = "append"

\* lines 160-162
FetchStart ==
    /\ pc = "start"
    /\ pc' = "fetch"
    /\ fetch_now' = clock
    /\ articles' = <<>>
    /\ src' = 1
    /\ UNCHANGED <<clock, feed, ent, seen, ci, filtered_articles, categorized, lost, oracle,
                   reads, marks, dedup_in, cosine_scores>>

\* lines 164-167: feedparser.parse returns the entries of the next source
FetchSource ==
    /\ pc = "fetch" /\ ent = 0 /\ src <= Len(SOURCES)
    /\ \E f \in Feeds(MaxEntries - seen) :
          /\ feed' = f
          /\ seen' = seen + Len(f)
    /\ ent' = 1
    /\ UNCHANGED <<pc, clock, src, fetch_now, articles, ci, filtered_articles, categorized,
                   lost, oracle, reads, marks, dedup_in, cosine_scores>>

\* lines 167, 225-226: feedparser.parse raises; the source contributes nothing
FetchSourceFails ==
    /\ pc = "fetch" /\ ent = 0 /\ src <= Len(SOURCES)
    /\ src' = src + 1
    /\ UNCHANGED <<pc, clock, feed, ent, fetch_now, seen, articles, ci, filtered_articles,
                   categorized, lost, oracle, reads, marks, dedup_in, cosine_scores>>

\* lines 168-226: one entry of the open feed.  An exception is caught by the
\* handler of the source (line 225), outside the entries loop: the rest of the
\* feed is never processed.
FetchEntry ==
    /\ pc = "fetch" /\ ent >= 1 /\ ent <= Len(feed)
    /\ LET entry == feed[ent]
           cutoff == fetch_now - WindowHours
           outcome == EntryOutcome(entry, fetch_now, cutoff)
       IN /\ articles' = IF outcome = "append"
                         THEN Append(articles,
                                     NewArticle(Len(articles) + 1, entry,
                                                SOURCES[src], fetch_now))
                         ELSE articles
          /\ IF outcome = "raise"
             THEN /\ lost' = lost \cup {<<src, k>> : k \in {m \in ent + 1..Len(feed) :
                                                    WellFormed(feed[m], fetch_now)}}
                  /\ ent' = 0
                  /\ feed' = <<>>
                  /\ src' = src + 1
             ELSE /\ ent' = ent + 1
                  /\ UNCHANGED <<lost, feed, src>>
    /\ UNCHANGED <<pc, clock, fetch_now, seen, ci, filtered_articles, categorized, oracle,
                   reads, marks, dedup_in, cosine_scores>>

\* line 168: the entries loop ends
FetchSourceEnd ==
    /\ pc = "fetch" /\ ent >= 1 /\ ent > Len(feed)
    /\ ent' = 0
    /\ feed' = <<>>
    /\ src' = src + 1
    /\ UNCHANGED <<pc, clock, fetch_now, seen, articles, ci, filtered_articles, categorized,
                   lost, oracle, reads, marks, dedup_in, cosine_scores>>

\* lines 228-229 and 773-778: fetch_articles returns; __main__ exits with status 1
\* when no article was fetched, and otherwise calls classify_articles
FetchReturn ==
    /\ pc = "fetch" /\ ent = 0 /\ src > Len(SOURCES)
    /\ IF articles = <<>>
       THEN /\ pc' = "exit1"
            /\ UNCHANGED <<ci, filtered_articles>>
       ELSE /\ pc' = "classify"
            /\ ci' = 1
            /\ filtered_articles' = <<>>
    /\ src' = 0
    /\ seen' = 0
    /\ UNCHANGED <<clock, feed, ent, fetch_now, articles, categorized,
                   lost, oracle, reads, marks, dedup_in, cosine_scores>>

-----------------------------------------------------------------------------
(* classify_articles, one article at a time *)

\* what classifier(text, CATEGORIES, multi_label=False) can do: rank the two
\* labels with scores that sum to 1 (in hundredths), or raise
ClassifierResults ==
    { [raised |-> FALSE, labels |-> <<CATEGORIES[a], CATEGORIES[3 - a]>>,
       scores |-> <<s, 100 - s>>] : a \in 1..2, s \in {60} }
    \cup { [raised |-> TRUE, labels |-> <<>>, scores |-> <<>>] }

\* lines 241-244: the category forced by a keyword of the source name or of the
\* text, "" when no keyword occurs
RuleCategory(article) ==
    LET where == article.source_keywords \cup article.text_for_ai
    IN IF AnyIn({"scholarship", "vidyalakshmi", "aicte", "ugc", "tata", "reliance",
                 "google scholarship"}, where)
       THEN "Scholarships"
       ELSE IF AnyIn({"intern", "internship", "google careers", "microsoft india",
                      "amazon india", "flipkart", "isro", "sarkari"}, where)
       THEN "Internships & Jobs"
       ELSE ""

\* the article dict once lines 242-253 have written their keys
Classified(article, category, confidence) ==
    [id |-> article.id,
     source |-> article.source,
     source_keywords |-> article.source_keywords,
     source_weight |-> article.source_weight,
     published_at |-> article.published_at,
     text_for_ai |-> article.text_for_ai,
     category |-> category,
     category_confidence |-> confidence,
     is_trending |-> is_trending(article.text_for_ai),
     is_must_know |-> is_must_know(article.text_for_ai)]

ClassifyOne_OracleFirst(article, result) ==
    IF ~is_student_related(article.text_for_ai)
    THEN [called |-> FALSE, out |-> <<>>]
    ELSE IF result.raised
    THEN [called |-> TRUE, out |-> <<>>]
    ELSE IF RuleCategory(article) # ""
    THEN [called |-> TRUE, out |-> <<Classified(article, RuleCategory(article), 100)>>]
    ELSE [called |-> TRUE, out |-> <<Classified(article, result.labels[1], 100)>>]

\* lines 235-260 for one article, `result` being what the classifier does if it
\* is called: whether it was called, and the articles appended (none or one)
ClassifyOne(article, result) ==
    IF ~is_student_related(article.text_for_ai)
    THEN [called |-> FALSE, out |-> <<>>]
    ELSE IF RuleCategory(article) # ""
    THEN [called |-> FALSE, out |-> <<Classified(article, RuleCategory(article), 100)>>]
    ELSE IF result.raised
    THEN [called |-> TRUE, out |-> <<>>]
    ELSE [called |-> TRUE, out |-> <<Classified(article, result.labels[1], 100)>>]

\* lines 234-260: one iteration of the loop
ClassifyArticle ==
    /\ pc = "classify" /\ ci <= Len(articles)
    /\ \E result \in ClassifierResults :
          LET r == ClassifyOne(articles[ci], result)
          IN /\ filtered_articles' = filtered_articles \o r.out
             /\ oracle' = IF r.called THEN (articles[ci].id :> result) @@ oracle
                          ELSE oracle
    /\ ci' = ci + 1
    /\ UNCHANGED <<pc, clock, src, feed, ent, fetch_now, seen, articles, categorized,
                   lost, reads, marks, dedup_in, cosine_scores>>

\* lines 261 and 778-779: classify_articles returns filtered_articles
ClassifyReturn ==
    /\ pc = "classify" /\ ci > Len(articles)
    /\ articles' = filtered_articles
    /\ filtered_articles' = <<>>
    /\ ci' = 0
    /\ pc' = "dedup"
    /\ UNCHANGED <<clock, src, feed, ent, fetch_now, seen, categorized,
                   lost, oracle, reads, marks, dedup_in, cosine_scores>>

-----------------------------------------------------------------------------
(* calculate_score *)

Max(a, b) == IF a >= b THEN a ELSE b
Min(a, b) == IF a <= b THEN a ELSE b

RecencyMultiplier_NoFloor(age_hours) == 10 * WindowHours - 10 * age_hours

\* line 267: max(0.1, 1 - age_hours / (7*24)), in 1/(10 * 7*24)ths
RecencyMultiplier(age_hours) ==
    Max(WindowHours, 10 * WindowHours - 10 * age_hours)

\* lines 265-271: the score (see Units)
calculate_score(article, now) ==
    LET age_hours == now - article.published_at
        must_know == IF "is_must_know" \in DOMAIN article
                     THEN article.is_must_know ELSE FALSE
    IN article.source_weight * RecencyMultiplier(age_hours)
       * article.category_confidence * (IF must_know THEN 3 ELSE 2)

\* line 272: article["score"] = score
Scored(article, now) ==
    [id |-> article.id,
     source |-> article.source,
     source_keywords |-> article.source_keywords,
     source_weight |-> article.source_weight,
     published_at |-> article.published_at,
     text_for_ai |-> article.text_for_ai,
     category |-> article.category,
     category_confidence |-> article.category_confidence,
     is_trending |-> article.is_trending,
     is_must_know |-> article.is_must_know,
     score |-> calculate_score(article, now)]

HasScore(article) == "score" \in DOMAIN article

-----------------------------------------------------------------------------
(* deduplicate_articles *)

\* similarities in hundredths: at the threshold and above it
SimValues == {85, 92}

\* cosine_scores[i][j] is read for i < j only
Pairs(n) == {p \in (1..n) \X (1..n) : p[1] < p[2]}
CosineMatrices(n) == [Pairs(n) -> SimValues]

\* line 293: whether the earlier article of a similar pair stays (and the later
\* one is removed)
KeepsEarlier_Reversed(earlier, later) == earlier.score <= later.score

KeepsEarlier_Strict(earlier, later) == earlier.score > later.score

KeepsEarlier(earlier, later) == earlier.score >= later.score

\* lines 288-297.  st is the state of the loops: to_remove, the exception raised if
\* any, and for the record the score reads and the pairs that caused each removal.
RECURSIVE DedupOuter(_, _, _, _), DedupInner(_, _, _, _, _)

DedupInner_BreakAlways(arts, cos, i, j, st) ==
    IF j > Len(arts) THEN DedupOuter(arts, cos, i + 1, st)
    ELSE IF cos[<<i, j>>] > DEDUP_THRESHOLD
    THEN LET read == [st EXCEPT !.reads = @ \cup {arts[i].id, arts[j].id}]
         IN IF KeepsEarlier(arts[i], arts[j])
            THEN DedupOuter(arts, cos, i + 1,
                            [read EXCEPT !.to_remove = @ \cup {j},
                                         !.marks = @ \cup {<<j, i>>}])
            ELSE DedupOuter(arts, cos, i + 1,
                            [read EXCEPT !.to_remove = @ \cup {i},
                                         !.marks = @ \cup {<<i, j>>}])
    ELSE DedupInner(arts, cos, i, j + 1, st)

DedupInner(arts, cos, i, j, st) ==
    IF j > Len(arts) THEN DedupOuter(arts, cos, i + 1, st)
    ELSE IF cos[<<i, j>>] > DEDUP_THRESHOLD
    THEN IF ~HasScore(arts[i])
         THEN [st EXCEPT !.raised = TRUE, !.reads = @ \cup {arts[i].id}]
         ELSE IF ~HasScore(arts[j])
         THEN [st EXCEPT !.raised = TRUE, !.reads = @ \cup {arts[i].id, arts[j].id}]
         ELSE LET read == [st EXCEPT !.reads = @ \cup {arts[i].id, arts[j].id}]
              IN IF KeepsEarlier(arts[i], arts[j])
                 THEN DedupInner(arts, cos, i, j + 1,
                                 [read EXCEPT !.to_remove = @ \cup {j},
                                              !.marks = @ \cup {<<j, i>>}])
                 ELSE DedupOuter(arts, cos, i + 1,
                                 [read EXCEPT !.to_remove = @ \cup {i},
                                              !.marks = @ \cup {<<i, j>>}])
    ELSE DedupInner(arts, cos, i, j + 1, st)

DedupOuter(arts, cos, i, st) ==
    IF i > Len(arts) THEN st
    ELSE IF i \in st.to_remove THEN DedupOuter(arts, cos, i + 1, st)
    ELSE DedupInner(arts, cos, i, i + 1, st)

DedupLoops(arts, cos) ==
    DedupOuter(arts, cos, 1, [to_remove |-> {}, raised |-> FALSE, reads |-> {},
                              marks |-> {}])

\* line 298
Keep(arts, to_remove) == SelectSeq([k \in 1..Len(arts) |-> [i |-> k, a |-> arts[k]]],
                                   LAMBDA e : e.i \notin to_remove)

KeptArticles(arts, to_remove) ==
    LET kept == Keep(arts, to_remove)
    IN [k \in 1..Len(kept) |-> kept[k].a]

\* lines 277-278: nothing to deduplicate
DedupEmpty ==
    /\ pc = "dedup" /\ Len(articles) = 0
    /\ pc' = "score"
    /\ dedup_in' = articles
    /\ UNCHANGED <<clock, src, feed, ent, fetch_now, seen, articles, ci, filtered_articles,
                   categorized, lost, oracle, reads, marks, cosine_scores>>

\* lines 280-285: the embedder raises and the input is returned as it is
DedupEmbeddingFails ==
    /\ pc = "dedup" /\ Len(articles) > 0
    /\ pc' = "score"
    /\ dedup_in' = articles
    /\ UNCHANGED <<clock, src, feed, ent, fetch_now, seen, articles, ci, filtered_articles,
                   categorized, lost, oracle, reads, marks, cosine_scores>>

\* lines 279-298 with the embedder answering: the loops run on some similarity
\* matrix; a KeyError of articles[i]["score"] is caught nowhere and ends the run
Deduplicate ==
    /\ pc = "dedup" /\ Len(articles) > 0
    /\ \E cos \in CosineMatrices(Len(articles)) :
          LET st == DedupLoops(articles, cos)
          IN /\ reads' = st.reads
             /\ marks' = st.marks
             /\ cosine_scores' = cos
             /\ IF st.raised
                THEN /\ pc' = "KeyError"
                     /\ UNCHANGED articles
                ELSE /\ pc' = "score"
                     /\ articles' = KeptArticles(articles, st.to_remove)
    /\ dedup_in' = articles
    /\ UNCHANGED <<clock, src, feed, ent, fetch_now, seen, ci, filtered_articles, categorized,
                   lost, oracle>>

-----------------------------------------------------------------------------
(* the scoring loop of __main__ and select_top_per_category *)

\* lines 781-785: every article is scored with one reading of the clock
ScoreArticles ==
    /\ pc = "score"
    /\ \E d \in 0..MaxDelay : clock' = clock + d
    /\ articles' = [k \in 1..Len(articles) |-> Scored(articles[k], clock')]
    /\ pc' = "select"
    /\ UNCHANGED <<src, feed, ent, fetch_now, seen, ci, filtered_articles, categorized, lost,
                   oracle, reads, marks, dedup_in, cosine_scores>>

\* line 308: sorted(..., key=score, reverse=True) is stable: of two articles with
\* equal scores the earlier one of the input stays first
InsertByScore_Unstable(sorted, x) ==
    LET k == Cardinality({m \in 1..Len(sorted) : sorted[m].score > x.score})
    IN SubSeq(sorted, 1, k) \o <<x>> \o SubSeq(sorted, k + 1, Len(sorted))

InsertByScore(sorted, x) ==
    LET k == Cardinality({m \in 1..Len(sorted) : sorted[m].score >= x.score})
    IN SubSeq(sorted, 1, k) \o <<x>> \o SubSeq(sorted, k + 1, Len(sorted))

RECURSIVE SortByScore(_)
SortByScore(seq) ==
    IF seq = <<>> THEN <<>>
    ELSE InsertByScore(SortByScore(SubSeq(seq, 1, Len(seq) - 1)), seq[Len(seq)])

\* line 309: sorted_articles[:TOP_N]
Truncate(seq) == SubSeq(seq, 1, Min(TOP_N, Len(seq)))

InCategory_Any(rescored, cat) == rescored

\* lines 303-305: the articles of one category, rescored, in input order
InCategory(rescored, cat) == SelectSeq(rescored, LAMBDA a : a.category = cat)

\* lines 301-310: the articles rescored in place and the mapping returned
select_top_per_category(arts, now) ==
    LET rescored == [k \in 1..Len(arts) |-> Scored(arts[k], now)]
    IN [articles |-> rescored,
        top_articles |-> [cat \in Range(CATEGORIES) |->
                             Truncate(SortByScore(InCategory(rescored, cat)))]]

\* line 785
SelectTop ==
    /\ pc = "select"
    /\ \E d \in 0..MaxDelay : clock' = clock + d
    /\ LET r == select_top_per_category(articles, clock')
       IN /\ articles' = r.articles
          /\ categorized' = r.top_articles
    /\ pc' = "render"
    /\ UNCHANGED <<src, feed, ent, fetch_now, seen, ci, filtered_articles, lost, oracle, reads,
                   marks, dedup_in, cosine_scores>>

\* lines 786-787: generate_html is handed the mapping
Render ==
    /\ pc = "render"
    /\ pc' = "done"
    /\ UNCHANGED <<clock, src, feed, ent, fetch_now, seen, articles, ci, filtered_articles,
                   categorized, lost, oracle, reads, marks, dedup_in, cosine_scores>>

-----------------------------------------------------------------------------
(* The run of __main__ *)

\* lines 124-132 have loaded the classifier and the embedder
Init ==
    /\ pc = "start"
    /\ clock = 0
    /\ src = 0
    /\ feed = <<>>
    /\ ent = 0
    /\ fetch_now = 0
    /\ seen = 0
    /\ articles = <<>>
    /\ ci = 0
    /\ filtered_articles = <<>>
    /\ categorized = <<>>
    /\ lost = {}
    /\ oracle = <<>>
    /\ reads = {}
    /\ marks = {}
    /\ dedup_in = <<>>
    /\ cosine_scores = <<>>

Next ==
    \/ FetchStart
    \/ FetchSource
    \/ FetchSourceFails
    \/ FetchEntry
    \/ FetchSourceEnd
    \/ FetchReturn
    \/ ClassifyArticle
    \/ ClassifyReturn
    \/ DedupEmpty
    \/ DedupEmbeddingFails
    \/ Deduplicate
    \/ ScoreArticles
    \/ SelectTop
    \/ Render

Spec == Init /\ [][Next]_vars

-----------------------------------------------------------------------------
(* The stages on their own: deduplicate_articles on scored articles, and the *)
(* scoring loop and select_top_per_category on classified articles.          *)

\* everything but pc and articles, as __main__ leaves it between two stages
AtRest ==
    /\ clock = 0
    /\ src = 0
    /\ feed = <<>>
    /\ ent = 0
    /\ fetch_now = 0
    /\ seen = 0
    /\ ci = 0
    /\ filtered_articles = <<>>
    /\ categorized = <<>>
    /\ lost = {}
    /\ oracle = <<>>
    /\ reads = {}
    /\ marks = {}
    /\ dedup_in = <<>>
    /\ cosine_scores = <<>>

\* a classified article as fetch_articles and classify_articles build it
AnArticle(id, text, published_at, weight, category) ==
    Classified(NewArticle(id,
                          GoodEntry(text, "date", published_at),
                          [name |-> "Swiggy Careers", weight |-> weight, keywords |-> {}],
                          0),
               category, 100)

\* scored articles that differ in source weight, hence in score
DedupInputs ==
    UNION { { [k \in 1..n |-> Scored(AnArticle(k, {"india", "exam"}, -24, w[k],
                                               CATEGORIES[1]), 0)] :
              w \in [1..n -> {85, 90, 95}] } : n \in 0..MaxDedup }

InitDedup ==
    /\ pc = "dedup"
    /\ articles \in DedupInputs
    /\ AtRest

NextDedup ==
    \/ DedupEmpty
    \/ DedupEmbeddingFails
    \/ Deduplicate

SpecDedup == InitDedup /\ [][NextDedup]_vars

\* classified articles of every tagging, age and weight
RichKinds ==
    { [text |-> {"india", "exam"} \cup tags, published_at |-> p, weight |-> w,
       category |-> CATEGORIES[1]] :
      tags \in SUBSET {"viral", "deadline"}, p \in {-WindowHours, -24, 24},
      w \in {90, 100} }

\* classified articles of both categories, tagged must-know or not, of two weights
PlainKinds ==
    { [text |-> {"india", "exam"} \cup tags, published_at |-> -24, weight |-> w,
       category |-> CATEGORIES[c]] :
      tags \in SUBSET {"deadline"}, w \in {90, 100}, c \in 1..2 }

\* the list of n articles that repeats the pattern p of kinds
Repeated(p, n) ==
    [k \in 1..n |-> LET kind == p[((k - 1) % Len(p)) + 1]
                    IN AnArticle(k, kind.text, kind.published_at, kind.weight,
                                 kind.category)]

RankInputs ==
    UNION { {Repeated(p, n) : p \in [1..n -> RichKinds]} : n \in 1..MaxRich }
    \cup UNION { {Repeated(p, n) : p \in [1..m -> PlainKinds], n \in 0..MaxSelect} :
                 m \in 1..MaxPattern }

InitRank ==
    /\ pc = "score"
    /\ articles \in RankInputs
    /\ AtRest

NextRank ==
    \/ ScoreArticles
    \/ SelectTop
    \/ Render

SpecRank == InitRank /\ [][NextRank]_vars

-----------------------------------------------------------------------------
(* Properties *)

Ids(arts) == {arts[k].id : k \in DOMAIN arts}

\* classify_articles has returned and nothing has touched its result yet
Classified_Done == pc = "dedup"

\* deduplicate_articles has returned normally
Dedup_Done == pc = "score"

\* deduplicate_articles has returned after running its loops on a matrix
Dedup_Ran == pc = "score" /\ cosine_scores # <<>>

\* select_top_per_category has returned
Select_Done == pc \in {"render", "done"}

\* C1 (as claimed): an article for which the classifier raised is still in the
\* result of classify_articles, with a category of the taxonomy and confidence 0.5.
C1_ClassifierFailureRetained ==
    Classified_Done =>
        \A id \in DOMAIN oracle :
            oracle[id].raised =>
                \E k \in DOMAIN articles :
                    /\ articles[k].id = id
                    /\ articles[k].category \in Range(CATEGORIES)
                    /\ articles[k].category_confidence = 50

\* C2 (as claimed): the run exits with status 1 only when fetch_articles returned
\* no article, and it never ends in an uncaught exception.
C2_OnlyEmptyIngestionAborts ==
    /\ pc = "exit1" => articles = <<>>
    /\ pc # "KeyError"

\* C3 (as claimed): every article whose score deduplicate_articles reads has had
\* its score written by calculate_score.
C3_ScoreWrittenBeforeDedupReads ==
    \A id \in reads :
        \E k \in DOMAIN dedup_in : dedup_in[k].id = id /\ HasScore(dedup_in[k])

\* the similarity of two articles of the input, by index
Similarity(i, j) == cosine_scores[<<Min(i, j), Max(i, j)>>]

\* C4: deduplicate_articles returns a subsequence of its input, the articles
\* unchanged (scores included); every article it drops was marked on account of a
\* pair more similar than the threshold, and is not the strictly higher-scoring
\* member of that pair.
C4_DedupSubsequenceNeverDropsHigher ==
    Dedup_Done =>
        /\ Len(articles) <= Len(dedup_in)
        /\ \A k \in DOMAIN articles :
              /\ articles[k].id \in DOMAIN dedup_in
              /\ articles[k] = dedup_in[articles[k].id]
        /\ \A k, l \in DOMAIN articles : k < l => articles[k].id < articles[l].id
        /\ \A i \in DOMAIN dedup_in :
              i \notin Ids(articles) => \E m \in marks : m[1] = i
        /\ \A m \in marks :
              /\ Similarity(m[1], m[2]) > DEDUP_THRESHOLD
              /\ ~(dedup_in[m[1]].score > dedup_in[m[2]].score)

\* C4 witness: an article was dropped on account of a pair of different scores.
C4_Witness ==
    /\ Dedup_Ran
    /\ Len(articles) < Len(dedup_in)
    /\ \E m \in marks : dedup_in[m[1]].score < dedup_in[m[2]].score

\* the articles linked to i by a chain of pairs above the threshold
RECURSIVE Grow(_)
Grow(S) ==
    LET T == S \cup {k \in DOMAIN dedup_in :
                        \E m \in S : m # k /\ Similarity(m, k) > DEDUP_THRESHOLD}
    IN IF T = S THEN S ELSE Grow(T)

Cluster(i) == Grow({i})

\* the member with the highest score, the earliest of those tied for it
Representative(cluster) ==
    CHOOSE r \in cluster :
        \A k \in cluster :
            \/ dedup_in[r].score > dedup_in[k].score
            \/ dedup_in[r].score = dedup_in[k].score /\ r <= k

\* C5: of every group of articles connected by pairs above the threshold, the
\* member with the highest score (the earliest of those tied) is in the output.
C5_ClusterRepresentativeKept ==
    Dedup_Ran =>
        \A i \in DOMAIN dedup_in : Representative(Cluster(i)) \in Ids(articles)

\* C5 witness: a group of three linked only as a chain, two of its members tied
\* for the highest score, lost a member and kept its representative.
C5_Witness ==
    /\ Dedup_Ran
    /\ \E i \in DOMAIN dedup_in :
          LET c == Cluster(i)
              r == Representative(c)
          IN /\ Cardinality(c) >= 3
             /\ \E a, b \in c : a # b /\ Similarity(a, b) <= DEDUP_THRESHOLD
             /\ \E k \in c : k > r /\ dedup_in[k].score = dedup_in[r].score
             /\ \E k \in c : k \notin Ids(articles)
             /\ r \in Ids(articles)

\* C6: every list of the result is sorted by descending score, articles of equal
\* score in input order, holds at most TOP_N articles, all of the key's category.
C6_SelectionSortedBoundedByCategory ==
    Select_Done =>
        \A cat \in DOMAIN categorized :
            LET list == categorized[cat]
            IN /\ Len(list) <= TOP_N
               /\ \A k \in DOMAIN list : list[k].category = cat
               /\ \A k, l \in DOMAIN list :
                     k < l =>
                        \/ list[k].score > list[l].score
                        \/ list[k].score = list[l].score /\ list[k].id < list[l].id

\* C6 witness: a category of more than TOP_N articles was cut to TOP_N, its list
\* holds two articles of equal score and is not in input order.
C6_Witness ==
    /\ Select_Done
    /\ \E cat \in DOMAIN categorized :
          LET list == categorized[cat]
          IN /\ Len(list) = TOP_N
             /\ Cardinality({k \in DOMAIN articles : articles[k].category = cat}) > TOP_N
             /\ \E k, l \in DOMAIN list : k < l /\ list[k].score = list[l].score
             /\ \E k, l \in DOMAIN list : k < l /\ list[k].id > list[l].id

\* C7: the keys of the result are the categories of the taxonomy, every article of
\* a list is an article of the input, and no article occurs twice, in one list or
\* in two.
C7_CategoryPartition ==
    Select_Done =>
        /\ DOMAIN categorized = Range(CATEGORIES)
        /\ \A cat \in DOMAIN categorized :
              LET list == categorized[cat]
              IN /\ \A k \in DOMAIN list : list[k] \in Range(articles)
                 /\ \A k, l \in DOMAIN list : k # l => list[k].id # list[l].id
        /\ \A c1, c2 \in DOMAIN categorized :
              c1 # c2 => Ids(categorized[c1]) \cap Ids(categorized[c2]) = {}

\* C7 witness: one category is empty, and still a key, while another holds several
\* articles.
C7_Witness ==
    /\ Select_Done
    /\ \E c1, c2 \in DOMAIN categorized :
          categorized[c1] = <<>> /\ Len(categorized[c2]) >= 2

\* C8 (as claimed): an article classified by the classifier carries the top label
\* and the score reported for it, and only a rule-matched article has confidence 1.0.
C8_OracleConfidenceVerbatim ==
    Classified_Done =>
        \A k \in DOMAIN articles :
            LET a == articles[k]
            IN /\ (a.id \in DOMAIN oracle /\ ~oracle[a.id].raised) =>
                     /\ a.category = oracle[a.id].labels[1]
                     /\ a.category_confidence = oracle[a.id].scores[1]
               /\ a.category_confidence = 100 => RuleCategory(a) # ""

\* C9 (as claimed): no well-formed entry is left unprocessed because another entry
\* raised.
C9_EntryFailuresIsolated == lost = {}

\* the scoring loop of __main__ has run
Scored_Done == pc = "select"

\* C10 (as claimed): of two articles that differ only in the trending tag, the
\* trending one scores 1.3 times the other.
C10_TrendingMultiplies ==
    Scored_Done =>
        \A k, l \in DOMAIN articles :
            LET a == articles[k]
                b == articles[l]
            IN (/\ a.source_weight = b.source_weight
                /\ a.published_at = b.published_at
                /\ a.category_confidence = b.category_confidence
                /\ a.is_must_know = b.is_must_know
                /\ a.is_trending /\ ~b.is_trending)
               => 10 * a.score = 13 * b.score

\* C11: an article whose age at scoring time is at least the window gets the
\* recency multiplier 0.1 exactly: its score is 0.1 * source_weight *
\* category_confidence * the must-know factor (1.5 or 1, the one facet multiplier
\* of calculate_score), and is positive.  clock is the `now` of the scoring loop.
C11_RecencyFloor ==
    Scored_Done =>
        \A k \in DOMAIN articles :
            LET a == articles[k]
            IN clock - a.published_at >= WindowHours =>
                  /\ a.score = a.source_weight * WindowHours * a.category_confidence
                               * (IF a.is_must_know THEN 3 ELSE 2)
                  /\ a.score > 0

\* C11 witness: scored articles exactly at the window and beyond it, one of them
\* must-know.
C11_Witness ==
    /\ Scored_Done
    /\ \E k, l \in DOMAIN articles :
          /\ clock - articles[k].published_at > WindowHours
          /\ articles[k].is_must_know
          /\ clock - articles[l].published_at >= WindowHours
          /\ ~articles[l].is_must_know

\* classify_articles is in its loop: articles is the fetched list (an article's
\* id is its index in it) and the articles before index ci have been processed
Classifying == pc = "classify"

\* C12: the classifier is called for an article only if the gate accepted it and
\* no rule keyword occurs in its text or source name; an article the gate rejected
\* or a rule matched causes no call, and a rule-matched article that passed the
\* gate is kept with the rule's category.
C12_OracleOnlyAfterGateAndRules ==
    Classifying =>
        /\ \A id \in DOMAIN oracle :
              /\ id < ci
              /\ is_student_related(articles[id].text_for_ai)
              /\ RuleCategory(articles[id]) = ""
        /\ \A k \in 1..(ci - 1) :
              /\ ~is_student_related(articles[k].text_for_ai) =>
                    /\ k \notin DOMAIN oracle
                    /\ k \notin Ids(filtered_articles)
              /\ (is_student_related(articles[k].text_for_ai)
                  /\ RuleCategory(articles[k]) # "") =>
                    /\ k \notin DOMAIN oracle
                    /\ \E m \in DOMAIN filtered_articles :
                          /\ filtered_articles[m].id = k
                          /\ filtered_articles[m].category = RuleCategory(articles[k])

\* C12 witness: of three processed articles the gate rejected one, a rule matched
\* one, and the classifier was called for the third.
C12_Witness ==
    /\ Classifying
    /\ \E a, b, c \in 1..(ci - 1) :
          /\ ~is_student_related(articles[a].text_for_ai)
          /\ is_student_related(articles[b].text_for_ai)
          /\ RuleCategory(articles[b]) # ""
          /\ b \in Ids(filtered_articles)
          /\ c \in DOMAIN oracle

\* the similarities of the articles of the output among themselves: what the
\* embedder answers when it is given the output
OutputMatrix ==
    [p \in Pairs(Len(articles)) |-> Similarity(articles[p[1]].id, articles[p[2]].id)]

\* C13: no two articles of the output are more similar than the threshold, and
\* deduplicate_articles applied to its output removes nothing.
C13_OutputPairwiseDistinct ==
    Dedup_Ran =>
        /\ \A k, l \in DOMAIN articles :
              k < l => Similarity(articles[k].id, articles[l].id) <= DEDUP_THRESHOLD
        /\ DedupLoops(articles, OutputMatrix).to_remove = {}

\* C13 witness: three-way similarities that are not transitive (1 like 2, 2 like 3,
\* 1 unlike 3), an article removed and at least two kept.
C13_Witness ==
    /\ Dedup_Ran
    /\ Len(articles) >= 2
    /\ Len(articles) < Len(dedup_in)
    /\ \E a, b, c \in DOMAIN dedup_in :
          /\ a < b /\ b < c
          /\ Similarity(a, b) > DEDUP_THRESHOLD
          /\ Similarity(b, c) > DEDUP_THRESHOLD
          /\ Similarity(a, c) <= DEDUP_THRESHOLD

\* the indices of the input that deduplicate_articles dropped
Removed == {i \in DOMAIN dedup_in : i \notin Ids(articles)}

\* C14 (as claimed): every removed article is more similar than the threshold to
\* an article of the output whose score is at least its own.
C14_RemovedHasKeptNearDuplicate ==
    Dedup_Ran =>
        \A i \in Removed :
            \E k \in DOMAIN articles :
                /\ Similarity(i, articles[k].id) > DEDUP_THRESHOLD
                /\ articles[k].score >= dedup_in[i].score

\* C14 (amended): every removed article is more similar than the threshold to an
\* article of the input whose score is at least its own, which may itself be
\* removed; and an article of the output whose score is at least its own is linked
\* to it by a chain of pairs above the threshold.
C14_RemovedHasNearDuplicateAndKeptChain ==
    Dedup_Ran =>
        \A i \in Removed :
            /\ \E j \in DOMAIN dedup_in :
                  /\ j # i
                  /\ Similarity(i, j) > DEDUP_THRESHOLD
                  /\ dedup_in[j].score >= dedup_in[i].score
            /\ \E k \in DOMAIN articles :
                  /\ articles[k].id \in Cluster(i)
                  /\ articles[k].score >= dedup_in[i].score

\* C14 witness: an article was removed although no article of the output is more
\* similar to it than the threshold.
C14_Witness ==
    /\ Dedup_Ran
    /\ \E i \in Removed :
          \A k \in DOMAIN articles :
              Similarity(i, articles[k].id) <= DEDUP_THRESHOLD

\* C15 (as claimed): for every article that went through ingestion, the recency
\* multiplier of the scoring loop lies between 0.1 and 1, and the score does not
\* exceed source_weight * category_confidence * 1.5.
C15_RecencyOnlyAttenuates ==
    Scored_Done =>
        \A k \in DOMAIN articles :
            LET a == articles[k]
                recency == RecencyMultiplier(clock - a.published_at)
            IN /\ recency >= WindowHours
               /\ recency <= 10 * WindowHours
               /\ a.score <= a.source_weight * (10 * WindowHours)
                             * a.category_confidence * 3

====
